---- MODULE Spec2Model ----
(***************************************************************************)
(* Model of eventbrite_cetd: the asynchronous export run                   *)
(* (src/eventbrite_cetd/_internal/eventbrite.py) as driven by the          *)
(* `generate` command (src/eventbrite_cetd/_internal/cli.py).              *)
(*                                                                         *)
(* The asyncio event loop is single threaded: a coroutine runs from one    *)
(* await to the next without interleaving.  Every action of Spec is one    *)
(* such run-to-await step of the main coroutine or of one attendee task,   *)
(* resumed with the answer of the remote API to its request in flight, or  *)
(* a step of the process before and after main (import, option parsing,    *)
(* exit).  SpecExport applies the export step of main to arbitrary         *)
(* attendee records and output paths; SpecVis is the `visualize` command   *)
(* (src/eventbrite_cetd/_internal/visualisation.py); SpecLegacy is one     *)
(* call of a pagination loop of the synchronous module                     *)
(* src/eventbrite_cetd/eventbrite.py.                                      *)
(***************************************************************************)
EXTENDS Naturals, Sequences, FiniteSets, TLC

\* ------------------------------------------------------------------------
\* Bounds of the model
\* ------------------------------------------------------------------------
\* The remote account holds at most MaxOrgs organizations.
MaxOrgs == 2
\* Over one run the remote reports has_more_items truthy at most MaxPages times.
MaxPages == 2
\* A loop of the legacy module is followed for at most MaxLegacyRequests
\* requests.
MaxLegacyRequests == 3

\* ------------------------------------------------------------------------
\* Python values
\* ------------------------------------------------------------------------
\* Python's None: the value of dict.get on a missing key, and of a JSON null.
None == "None"
PyTrue == "True"
PyFalse == "False"

\* bool(v) for the values a pagination block carries: None, False and the
\* empty string are falsy, every other value is truthy.
Truthy(v) == v \notin {None, PyFalse, ""}

\* d.get(k, default) on a mapping with string keys.
Get(d, k, default) == IF k \in DOMAIN d THEN d[k] ELSE default

\* The decimal text of the integers 1..5; position n holds the text of n.
DecimalText == <<"1", "2", "3", "4", "5">>

\* The exception marker of a conversion that raises.
ValueError == 0

\* int(s) for an organization id: the integer whose decimal text is s, or
\* ValueError when s is no decimal text.
PyInt(s) ==
  IF \E n \in 1..Len(DecimalText) : DecimalText[n] = s
    THEN CHOOSE n \in 1..Len(DecimalText) : DecimalText[n] = s
    ELSE ValueError

\* ------------------------------------------------------------------------
\* URLs.  A URL is the record of its path and query parameters; a
\* continuation of None stands for a URL without the continuation parameter.
\* ------------------------------------------------------------------------
\* OrganizationsUrl as the legacy module builds it: never a continuation.
OrganizationsUrlFirstPage(continuation) ==
  [path |-> "/users/me/organizations/", continuation |-> None]

OrganizationsUrl(continuation) ==
  [path |-> "/users/me/organizations/",
   continuation |-> IF Truthy(continuation) THEN continuation ELSE None]

AttendeesUrl(organization_id, continuation) ==
  [path |-> "/organizations/{id}/attendees/",
   organization_id |-> organization_id,
   expand |-> "event",
   continuation |-> IF Truthy(continuation) THEN continuation ELSE None]

\* ------------------------------------------------------------------------
\* The remote API (the environment): what it may answer
\* ------------------------------------------------------------------------
OrgNames == <<"Acme", "Beta", "Gamma", "Delta", "Eps">>

\* The k-th organization of the account, as the API serves it.
Org(k) == [id |-> DecimalText[k], name |-> OrgNames[k]]
\* An organization whose id is not the text of an integer.
OddOrg(k) == [id |-> "x", name |-> OrgNames[k]]

\* The continuation token the API hands out with the page it serves to the
\* r-th request of a loop: a fresh one with every page.
Tokens == <<"t1", "t2", "t3", "t4", "t5">>

\* The pagination blocks the API may send in answer to the r-th request of
\* a loop: has_more_items and continuation are each present or absent.
MorePaginations(r) ==
  { [has_more_items |-> PyTrue, continuation |-> Tokens[r]],
    [has_more_items |-> PyTrue, continuation |-> ""],
    [has_more_items |-> PyTrue] }
LastPaginations ==
  { [has_more_items |-> PyFalse],
    [has_more_items |-> PyFalse, continuation |-> "t1"],
    [continuation |-> None] }

\* JSON values of an attendee record, tagged by type.
Null == [t |-> "null"]
S(s) == [t |-> "str", v |-> s]
B(b) == [t |-> "bool", v |-> b]
M(f) == [t |-> "map", v |-> f]

EventIds == <<"E1", "E2", "E3", "E4", "E5">>

\* A complete attendee record of organization n, served in answer to the
\* r-th request of one pagination loop.
FullAttendee(n, r) ==
  M([event_id |-> S(EventIds[r]),
     checked_in |-> B(TRUE),
     event |-> M([organization_id |-> S(DecimalText[n]),
                  name |-> M([text |-> S("Gala")]),
                  start |-> M([utc |-> S("2024-05-01T00:00:00Z")])]),
     profile |-> M([name |-> S("Jane Doe"), email |-> S("jane@x.com"),
                    age |-> S("30"), gender |-> S("F"),
                    cell_phone |-> S("555")])])

\* An attendee record of organization n without check-in flag and profile.
BareAttendee(n, r) ==
  M([event_id |-> S(EventIds[r]),
     event |-> M([organization_id |-> S(DecimalText[n])])])

\* The attendee lists one page may carry: none, or three records of which
\* the first and the last are equal (one person registered twice).
AttendeePages(n, r) ==
  { <<>>, <<FullAttendee(n, r), BareAttendee(n, r), FullAttendee(n, r)>> }

\* ------------------------------------------------------------------------
\* The CSV exporter
\* ------------------------------------------------------------------------
HEADERS ==
  <<"organization_id", "event_id", "event_name", "event_start", "checked_in",
    "attendee_name", "email", "age", "gender", "cell_phone">>

\* The outcome of an expression that raised.
Raised == [t |-> "raise"]
EmptyMap == M(<<>>)

\* JGet as d.get(k): a missing key gives None, whatever the default.
JGetNone(d, k, default) ==
  IF d.t = "raise" THEN Raised
  ELSE IF d.t # "map" THEN Raised
  ELSE IF k \in DOMAIN d.v THEN d.v[k] ELSE [t |-> "null"]

\* d.get(k, default) where d is whatever an earlier .get returned: raises
\* AttributeError when d is not a mapping (None has no attribute get).
JGet(d, k, default) ==
  IF d.t = "raise" THEN Raised
  ELSE IF d.t # "map" THEN Raised
  ELSE IF k \in DOMAIN d.v THEN d.v[k] ELSE default

\* The text csv.writer puts in a cell: None as the empty string, a string as
\* itself, every other value as str(value).
CsvCell(v) ==
  CASE v.t = "null" -> ""
    [] v.t = "str" -> v.v
    [] v.t = "bool" -> (IF v.v THEN "True" ELSE "False")
    [] OTHER -> "{...}"

\* RowValues with the e-mail address before the name.
RowValuesEmailFirst(attendee) ==
  LET event == JGet(attendee, "event", EmptyMap)
      profile == JGet(attendee, "profile", EmptyMap)
  IN  << JGet(event, "organization_id", S("")),
         JGet(attendee, "event_id", S("")),
         JGet(JGet(event, "name", EmptyMap), "text", S("")),
         JGet(JGet(event, "start", EmptyMap), "utc", S("")),
         JGet(attendee, "checked_in", B(FALSE)),
         JGet(profile, "email", S("")),
         JGet(profile, "name", S("")),
         JGet(profile, "age", S("")),
         JGet(profile, "gender", S("")),
         JGet(profile, "cell_phone", S("")) >>

\* The values of one row, in column order, before they are written.
RowValues(attendee) ==
  LET event == JGet(attendee, "event", EmptyMap)
      profile == JGet(attendee, "profile", EmptyMap)
  IN  << JGet(event, "organization_id", S("")),
         JGet(attendee, "event_id", S("")),
         JGet(JGet(event, "name", EmptyMap), "text", S("")),
         JGet(JGet(event, "start", EmptyMap), "utc", S("")),
         JGet(attendee, "checked_in", B(FALSE)),
         JGet(profile, "name", S("")),
         JGet(profile, "email", S("")),
         JGet(profile, "age", S("")),
         JGet(profile, "gender", S("")),
         JGet(profile, "cell_phone", S("")) >>

\* Building the row of an attendee raises when any .get of it raises.
RowRaises(attendee) ==
  LET values == RowValues(attendee)
  IN  \E c \in 1..Len(HEADERS) : values[c].t = "raise"

\* The line writer.writerow writes for an attendee.
Row(attendee) ==
  LET values == RowValues(attendee)
  IN  [c \in 1..Len(HEADERS) |-> CsvCell(values[c])]

\* The file at the output path: absent, or the lines it holds.
NoFile == [exists |-> FALSE, lines |-> <<>>]
\* An export that an earlier run left at the output path.
StaleFile ==
  [exists |-> TRUE,
   lines |-> <<HEADERS, [c \in 1..Len(HEADERS) |-> "old"]>>]

RECURSIVE Distinct(_)
\* The sequence without the later copies of its items.
Distinct(seq) ==
  IF seq = <<>> THEN <<>>
  ELSE LET front == Distinct(SubSeq(seq, 1, Len(seq) - 1))
           last == seq[Len(seq)]
       IN  IF \E k \in 1..Len(front) : front[k] = last
             THEN front ELSE Append(front, last)

\* The lines a complete export of the attendees holds.
ExportLines(attendees) ==
  <<HEADERS>> \o [r \in 1..Len(attendees) |-> Row(attendees[r])]

\* The first attendee whose row cannot be built, or Len + 1 when none.
FirstBadRow(attendees) ==
  IF \E r \in 1..Len(attendees) : RowRaises(attendees[r])
    THEN CHOOSE r \in 1..Len(attendees) :
           /\ RowRaises(attendees[r])
           /\ \A q \in 1..(r - 1) : ~RowRaises(attendees[q])
    ELSE Len(attendees) + 1

\* export_attendees_to_csv(attendees, output_file) on a file system where
\* the output path holds `old`.  Line 1 is the header and line r + 1 the row
\* of attendees[r].  fault = 0: open() raises and the path is untouched;
\* fault = k > 0: writing line k raises an OSError; a fault beyond the last
\* line never happens.  open() truncates, and every line written before the
\* line that raised stays in the file.
export_attendees_to_csv(attendees, old, fault) ==
  LET n == Len(attendees)
      bad == FirstBadRow(attendees)
      stops == {k \in 1..(n + 1) : k = fault \/ k = bad + 1}
      stopAt == IF stops = {} THEN n + 2
                ELSE CHOOSE k \in stops : \A j \in stops : k <= j
  IN  IF fault = 0
        THEN [raised |-> TRUE, file |-> old]
        ELSE [raised |-> stopAt <= n + 1,
              file |-> [exists |-> TRUE,
                        lines |-> SubSeq(ExportLines(attendees), 1,
                                         stopAt - 1)]]

RECURSIVE FlattenDistinct(_)
\* Flatten with every attendee kept once only.
FlattenDistinct(lists) ==
  IF lists = <<>> THEN <<>>
  ELSE Distinct(Head(lists) \o FlattenDistinct(Tail(lists)))

RECURSIVE FlattenBackwards(_)
\* Flatten with the sublists taken from the last to the first.
FlattenBackwards(lists) ==
  IF lists = <<>> THEN <<>>
  ELSE FlattenBackwards(Tail(lists)) \o Head(lists)

\* [attendee for sublist in results for attendee in sublist]
RECURSIVE Flatten(_)
Flatten(lists) ==
  IF lists = <<>> THEN <<>> ELSE Head(lists) \o Flatten(Tail(lists))

\* ------------------------------------------------------------------------
\* State
\* ------------------------------------------------------------------------
VARIABLES
  pc,             \* where main is: Idle, ListingOrganizations,
                  \* FetchingAttendees, Exporting, Done, Failed
  session,        \* the aiohttp.ClientSession of main: none, open, closed
  lister,         \* the frame of get_my_organizations and its request
  organizations,  \* main's organizations
  tasks,          \* the frames of the get_attendees_by_org tasks of gather
  results,        \* main's results
  all_attendees,  \* main's all_attendees
  file,           \* the file at output_file
  summary,        \* the per-organization lines main logged
  cli,            \* the generate command: exit code and confirmation
  remote,         \* what the remote API received and served so far
  proc,           \* the process: environment, arguments, import and parsing
  output_file,    \* the --output-file of generate
  dirs,           \* the directories that exist
  vis,            \* the visualize command: its input, charts and outcome
  legacy          \* a call of a pagination loop of the legacy module

vars ==
  <<pc, session, lister, organizations, tasks, results, all_attendees, file,
    summary, cli, remote, proc, output_file, dirs, vis, legacy>>

\* What a run of main never changes.
host == <<proc, output_file, vis, legacy>>

\* The request of fetch: idle (none) or sent (the GET is in flight).
Idle == [st |-> "idle", url |-> [path |-> ""]]
Sent(url) == [st |-> "sent", url |-> url]

\* The outcome fetch raises for: transport failure, timeout, or a status
\* that raise_for_status rejects.
FetchError == [error |-> TRUE]

\* What the remote counts for one pagination loop: the requests it
\* received, the pages it served, the pages among them with has_more_items
\* truthy, the items of all pages it served, in service order, and the
\* cursor it handed out with the last page (None when that page carried no
\* token or was the last).
NoTraffic ==
  [requests |-> 0, pages |-> 0, more |-> 0, items |-> <<>>, cursor |-> None]

\* The remote's account after it served the page `data` of a loop.
Served(traffic, data, key) ==
  LET pagination == Get(data, "pagination", <<>>)
      more == Truthy(Get(pagination, "has_more_items", None))
  IN  [requests |-> traffic.requests,
       pages |-> traffic.pages + 1,
       more |-> IF more THEN traffic.more + 1 ELSE traffic.more,
       items |-> traffic.items \o Get(data, key, <<>>),
       cursor |-> IF more THEN Get(pagination, "continuation", None)
                          ELSE None]

\* The number of truthy has_more_items the remote has sent in this run.
RECURSIVE SumMore(_)
SumMore(ts) == IF ts = <<>> THEN 0 ELSE Head(ts).more + SumMore(Tail(ts))
MoreSent == remote.list.more + SumMore(remote.att)

N == Len(tasks)

\* A path: its directory part (the empty string for the working directory)
\* and its file name.  The default of --output-file.
DefaultOutputFile == [dir |-> "data", name |-> "attendees.csv"]

\* The options of the callback of the app: none, -V/--version, or
\* -D/--debug-info.
Flags == {"", "-V", "-D"}

\* The value of PRIVATE_TOKEN when the variable is set.
Token == "secret"

\* The process before its first statement: PRIVATE_TOKEN in its environment
\* (None when unset), its arguments, how often the variable was looked up,
\* the Authorization header built from it, what it printed apart from the
\* log, and its exit status once it ended outside the command body.
Process(token, flag, command) ==
  [stage |-> "start", token |-> token, flag |-> flag, command |-> command,
   reads |-> 0, authorization |-> None, printed |-> "", code |-> 0]

\* The process when the body of the command starts.
Started(command) ==
  [Process(Token, "", command) EXCEPT
     !.stage = "command", !.reads = 1,
     !.authorization = [scheme |-> "Bearer", token |-> Token]]

\* The visualize command when it is not the command of the process.
NoVis == [st |-> "idle"]

\* The legacy module when it is not what the process runs.
NoLegacy == [st |-> "idle"]

Init ==
  /\ proc \in { Process(token, flag, "generate") :
                  token \in {None, Token}, flag \in Flags }
  /\ output_file = DefaultOutputFile
  /\ vis = NoVis
  /\ legacy = NoLegacy
  /\ pc = "Idle"
  /\ session = "none"
  /\ lister = [continuation |-> None, organizations |-> <<>>, net |-> Idle]
  /\ organizations = <<>>
  /\ tasks = <<>>
  /\ results = <<>>
  /\ all_attendees = <<>>
  /\ file \in {NoFile, StaleFile}
  /\ dirs = (IF file.exists THEN {output_file.dir} ELSE {})
  /\ summary = <<>>
  /\ cli = [exited |-> FALSE, code |-> 0, confirmed |-> FALSE]
  /\ remote = [list |-> NoTraffic, att |-> <<>>]

\* ------------------------------------------------------------------------
\* The process up to the command body
\* ------------------------------------------------------------------------
\* import_cli with os.environ.get in place of os.environ[...]: an unset
\* variable gives None and the import goes on.
import_cli_lenient ==
  /\ proc.stage = "start"
  /\ proc' = [proc EXCEPT
                !.stage = "loaded", !.reads = @ + 1,
                !.authorization = [scheme |-> "Bearer", token |-> proc.token]]
  /\ UNCHANGED <<pc, session, lister, organizations, tasks, results,
                 all_attendees, file, summary, cli, remote, output_file, dirs,
                 vis, legacy>>

\* The imports of cli.py execute the module eventbrite:
\* os.environ["PRIVATE_TOKEN"] is looked up once and HEADERS is built from
\* it; when the variable is unset the lookup raises KeyError and the
\* process ends with the traceback, before app() is called.
import_cli ==
  /\ proc.stage = "start"
  /\ proc' = IF proc.token = None
               THEN [proc EXCEPT
                       !.stage = "crashed", !.reads = @ + 1, !.code = 1]
               ELSE [proc EXCEPT
                       !.stage = "loaded", !.reads = @ + 1,
                       !.authorization =
                          [scheme |-> "Bearer", token |-> proc.token]]
  /\ UNCHANGED <<pc, session, lister, organizations, tasks, results,
                 all_attendees, file, summary, cli, remote, output_file, dirs,
                 vis, legacy>>

\* app() parses the options of the callback `common` before it invokes a
\* command: version_callback and debug_callback print and raise typer.Exit
\* when their flag is given; otherwise the command body is entered.
common ==
  /\ proc.stage = "loaded"
  /\ proc' = CASE proc.flag = "-V" ->
                    [proc EXCEPT !.stage = "exited", !.printed = "version"]
                [] proc.flag = "-D" ->
                    [proc EXCEPT !.stage = "exited", !.printed = "debug info"]
                [] OTHER -> [proc EXCEPT !.stage = "command"]
  /\ UNCHANGED <<pc, session, lister, organizations, tasks, results,
                 all_attendees, file, summary, cli, remote, output_file, dirs,
                 vis, legacy>>

\* ------------------------------------------------------------------------
\* main: entering the session and listing the organizations
\* ------------------------------------------------------------------------
\* The except clause of main: the exception leaves the `async with`, which
\* closes the session, is logged and is raised again to the caller.
main_except_swallows ==
  /\ session' = "closed"
  /\ pc' = "Done"

main_except ==
  /\ session' = "closed"
  /\ pc' = "Failed"

\* main up to its first await: the session is opened and
\* get_my_organizations sends its first request.
main_start ==
  /\ pc = "Idle"
  /\ proc.stage = "command"
  /\ proc.command = "generate"
  /\ UNCHANGED <<host, dirs>>
  /\ pc' = "ListingOrganizations"
  /\ session' = "open"
  /\ lister' = [continuation |-> None, organizations |-> <<>>,
                net |-> Sent(OrganizationsUrl(None))]
  /\ remote' = [remote EXCEPT !.list.requests = @ + 1]
  /\ UNCHANGED <<organizations, tasks, results, all_attendees, file, summary,
                 cli>>

\* The organization pages the remote may serve after `served` organizations:
\* the next organizations of the account, the last of them possibly with an
\* id that is no integer, under any pagination block; and two bodies that
\* lack a required key.
OrganizationChunks(served) ==
  { [k \in 1..c |-> IF odd /\ k = c THEN OddOrg(served + k)
                                      ELSE Org(served + k)] :
      c \in 0..(MaxOrgs - served), odd \in BOOLEAN }

OrganizationResponses(served, paginations) ==
  { [organizations |-> chunk, pagination |-> p] :
      chunk \in OrganizationChunks(served), p \in paginations }
  \cup { [pagination |-> [has_more_items |-> PyFalse]],
         [organizations |-> <<>>] }

\* The pagination blocks the remote may still send.
Paginations(r) ==
  LastPaginations
    \cup (IF MoreSent < MaxPages THEN MorePaginations(r) ELSE {})

\* One turn of the loop of get_my_organizations on the page `data`:
\* data["organizations"] and data["pagination"] raise KeyError when absent.
get_my_organizations_page(frame, data) ==
  IF "organizations" \notin DOMAIN data \/ "pagination" \notin DOMAIN data
    THEN [raised |-> TRUE, organizations |-> frame.organizations,
          continuation |-> frame.continuation, has_more_items |-> None]
    ELSE [raised |-> FALSE,
          organizations |-> frame.organizations \o data.organizations,
          continuation |-> Get(data.pagination, "continuation", None),
          has_more_items |-> Get(data.pagination, "has_more_items", None)]

\* The frame of a get_attendees_by_org coroutine that gather has wrapped in
\* a task and that has not run yet.
ReadyTask(organization_id) ==
  [st |-> "ready", organization_id |-> organization_id, attendees |-> <<>>,
   continuation |-> None, net |-> Idle, ret |-> <<>>]

\* The task list main builds: int(org["id"]) for every organization, in
\* list order, before any coroutine is started.
\* BuildRaises with the id of the first organization converted only.
BuildRaisesOnFirst(orgs) == orgs # <<>> /\ PyInt(orgs[1].id) = ValueError

BuildTasks(orgs) == [i \in 1..Len(orgs) |-> ReadyTask(PyInt(orgs[i].id))]
BuildRaises(orgs) == \E i \in 1..Len(orgs) : PyInt(orgs[i].id) = ValueError

\* get_my_organizations resumes with the outcome of its request: the
\* request failed, or the remote served the page `data`.  A failed request
\* or a malformed page raises out of main.  A page with a truthy
\* has_more_items sends the next request.  Any other page ends the loop:
\* main gets the list, builds the tasks and awaits gather.
get_my_organizations_on(data) ==
  LET turn == get_my_organizations_page(lister, data)
      gone == [continuation |-> None, organizations |-> <<>>, net |-> Idle]
      served == [remote EXCEPT !.list = Served(@, data, "organizations")]
  IN  IF data = FetchError
        THEN /\ main_except
             /\ lister' = gone
             /\ UNCHANGED <<organizations, tasks, remote>>
      ELSE IF turn.raised
        THEN /\ main_except
             /\ lister' = gone
             /\ remote' = served
             /\ UNCHANGED <<organizations, tasks>>
      ELSE IF Truthy(turn.has_more_items)
        THEN /\ lister' = [continuation |-> turn.continuation,
                           organizations |-> turn.organizations,
                           net |-> Sent(OrganizationsUrl(turn.continuation))]
             /\ remote' = [served EXCEPT !.list.requests = @ + 1]
             /\ UNCHANGED <<pc, session, organizations, tasks>>
      ELSE /\ lister' = gone
           /\ organizations' = turn.organizations
           /\ IF BuildRaises(turn.organizations)
                THEN /\ main_except
                     /\ remote' = served
                     /\ UNCHANGED tasks
                ELSE /\ tasks' = BuildTasks(turn.organizations)
                     /\ remote' =
                          [served EXCEPT !.att =
                             [i \in 1..Len(turn.organizations) |-> NoTraffic]]
                     /\ pc' = "FetchingAttendees"
                     /\ UNCHANGED session

get_my_organizations_resume ==
  /\ pc = "ListingOrganizations"
  /\ UNCHANGED <<host, dirs>>
  /\ lister.net.st = "sent"
  /\ \E data \in {FetchError}
         \cup OrganizationResponses(Len(remote.list.items),
                                  Paginations(remote.list.requests)) :
       get_my_organizations_on(data)
  /\ UNCHANGED <<results, all_attendees, file, summary, cli>>

\* ------------------------------------------------------------------------
\* The attendee tasks of gather
\* ------------------------------------------------------------------------
\* A task that has finished: its frame is gone, its outcome stays.
Ended(task, st, ret) ==
  [st |-> st, organization_id |-> task.organization_id, attendees |-> <<>>,
   continuation |-> None, net |-> Idle, ret |-> ret]

\* get_attendees_by_org_start with the request of the second page sent
\* along with the first.
get_attendees_by_org_start_prefetch(i) ==
  /\ pc = "FetchingAttendees"
  /\ UNCHANGED <<host, dirs>>
  /\ tasks[i].st = "ready"
  /\ \A j \in 1..(i - 1) : tasks[j].st # "ready"
  /\ tasks' = [tasks EXCEPT
                 ![i].st = "waiting",
                 ![i].net = Sent(AttendeesUrl(tasks[i].organization_id,
                                              tasks[i].continuation))]
  /\ remote' = [remote EXCEPT !.att[i].requests = @ + 2]
  /\ UNCHANGED <<pc, session, lister, organizations, results, all_attendees,
                 file, summary, cli>>

\* The first step of task i: get_attendees_by_org runs to its first await
\* and sends the request of the first page.  The loop runs the first steps
\* of the tasks in the order gather created them.
get_attendees_by_org_start(i) ==
  /\ pc = "FetchingAttendees"
  /\ UNCHANGED <<host, dirs>>
  /\ tasks[i].st = "ready"
  /\ \A j \in 1..(i - 1) : tasks[j].st # "ready"
  /\ tasks' = [tasks EXCEPT
                 ![i].st = "waiting",
                 ![i].net = Sent(AttendeesUrl(tasks[i].organization_id,
                                              tasks[i].continuation))]
  /\ remote' = [remote EXCEPT !.att[i].requests = @ + 1]
  /\ UNCHANGED <<pc, session, lister, organizations, results, all_attendees,
                 file, summary, cli>>

\* The attendee pages the remote may serve for the r-th request of the loop
\* of organization n: a body with or without the attendees key, under any
\* pagination block, or a body without pagination block.
AttendeeResponses(n, r, paginations) ==
  { [attendees |-> a, pagination |-> p] :
      a \in AttendeePages(n, r), p \in paginations }
  \cup { [pagination |-> p] : p \in paginations }
  \cup { [attendees |-> <<>>] }

\* fetch_attendees_page on the body `data`: the attendees (an empty list
\* when the key is absent), the continuation token and has_more_items;
\* data["pagination"] raises KeyError when absent.
fetch_attendees_page(data) ==
  IF "pagination" \notin DOMAIN data
    THEN [raised |-> TRUE, attendees |-> <<>>, continuation |-> None,
          has_more_items |-> None]
    ELSE [raised |-> FALSE,
          attendees |-> Get(data, "attendees", <<>>),
          continuation |-> Get(data.pagination, "continuation", None),
          has_more_items |-> Get(data.pagination, "has_more_items", None)]

\* get_attendees_by_org_page with the loop going on while the page carries
\* a continuation token, whatever has_more_items says.
get_attendees_by_org_page_by_token(frame, data) ==
  LET page == fetch_attendees_page(data)
  IN  [raised |-> page.raised,
       attendees |-> frame.attendees \o page.attendees,
       continuation |-> page.continuation,
       more |-> Truthy(page.continuation)]

\* One turn of the loop of get_attendees_by_org on the page `data`.
get_attendees_by_org_page(frame, data) ==
  LET page == fetch_attendees_page(data)
  IN  [raised |-> page.raised,
       attendees |-> frame.attendees \o page.attendees,
       continuation |-> page.continuation,
       more |-> Truthy(page.has_more_items)]

\* get_attendees_by_org_on with a failed request ending the loop as if it
\* had been the last page: the task returns what it has accumulated.
get_attendees_by_org_on_partial(i, data) ==
  LET turn == get_attendees_by_org_page(tasks[i], data)
      served == [remote EXCEPT !.att[i] = Served(@, data, "attendees")]
  IN  IF data = FetchError
        THEN /\ tasks' = [tasks EXCEPT
                            ![i] = Ended(@, "done", tasks[i].attendees)]
             /\ UNCHANGED remote
      ELSE IF turn.raised
        THEN /\ tasks' = [tasks EXCEPT ![i] = Ended(@, "failed", <<>>)]
             /\ remote' = served
      ELSE IF ~turn.more
        THEN /\ tasks' = [tasks EXCEPT
                            ![i] = Ended(@, "done", turn.attendees)]
             /\ remote' = served
      ELSE IF session # "open"
        THEN /\ tasks' = [tasks EXCEPT ![i] = Ended(@, "failed", <<>>)]
             /\ remote' = served
      ELSE /\ tasks' = [tasks EXCEPT
                          ![i].attendees = turn.attendees,
                          ![i].continuation = turn.continuation,
                          ![i].net = Sent(AttendeesUrl(
                                       tasks[i].organization_id,
                                       turn.continuation))]
           /\ remote' = [served EXCEPT !.att[i].requests = @ + 1]

\* get_attendees_by_org_on with a closed session still taking requests.
get_attendees_by_org_on_closed_session(i, data) ==
  LET turn == get_attendees_by_org_page(tasks[i], data)
      served == [remote EXCEPT !.att[i] = Served(@, data, "attendees")]
  IN  IF data = FetchError
        THEN /\ tasks' = [tasks EXCEPT ![i] = Ended(@, "failed", <<>>)]
             /\ UNCHANGED remote
      ELSE IF turn.raised
        THEN /\ tasks' = [tasks EXCEPT ![i] = Ended(@, "failed", <<>>)]
             /\ remote' = served
      ELSE IF ~turn.more
        THEN /\ tasks' = [tasks EXCEPT
                            ![i] = Ended(@, "done", turn.attendees)]
             /\ remote' = served
      ELSE /\ tasks' = [tasks EXCEPT
                          ![i].attendees = turn.attendees,
                          ![i].continuation = turn.continuation,
                          ![i].net = Sent(AttendeesUrl(
                                       tasks[i].organization_id,
                                       turn.continuation))]
           /\ remote' = [served EXCEPT !.att[i].requests = @ + 1]

\* get_attendees_by_org_on with fetch sending the GET once more after a
\* failure, up to three requests of a loop.
get_attendees_by_org_on_retry(i, data) ==
  LET turn == get_attendees_by_org_page(tasks[i], data)
      served == [remote EXCEPT !.att[i] = Served(@, data, "attendees")]
  IN  IF data = FetchError /\ remote.att[i].requests < 3
        THEN /\ UNCHANGED tasks
             /\ remote' = [remote EXCEPT !.att[i].requests = @ + 1]
      ELSE IF data = FetchError \/ turn.raised
        THEN /\ tasks' = [tasks EXCEPT ![i] = Ended(@, "failed", <<>>)]
             /\ remote' = IF data = FetchError THEN remote ELSE served
      ELSE IF ~turn.more
        THEN /\ tasks' = [tasks EXCEPT
                            ![i] = Ended(@, "done", turn.attendees)]
             /\ remote' = served
      ELSE IF session # "open"
        THEN /\ tasks' = [tasks EXCEPT ![i] = Ended(@, "failed", <<>>)]
             /\ remote' = served
      ELSE /\ tasks' = [tasks EXCEPT
                          ![i].attendees = turn.attendees,
                          ![i].continuation = turn.continuation,
                          ![i].net = Sent(AttendeesUrl(
                                       tasks[i].organization_id,
                                       turn.continuation))]
           /\ remote' = [served EXCEPT !.att[i].requests = @ + 1]

\* Task i resumes with the outcome of its request: the request failed, or
\* the remote served the page `data`.  A failed request or a malformed page
\* ends the task with the exception.  A page with a truthy has_more_items
\* sends the next request, which a closed session refuses with
\* RuntimeError.  Any other page ends the loop: the task returns its
\* attendees.
get_attendees_by_org_on(i, data) ==
  LET turn == get_attendees_by_org_page(tasks[i], data)
      served == [remote EXCEPT !.att[i] = Served(@, data, "attendees")]
  IN  IF data = FetchError
        THEN /\ tasks' = [tasks EXCEPT ![i] = Ended(@, "failed", <<>>)]
             /\ UNCHANGED remote
      ELSE IF turn.raised
        THEN /\ tasks' = [tasks EXCEPT ![i] = Ended(@, "failed", <<>>)]
             /\ remote' = served
      ELSE IF ~turn.more
        THEN /\ tasks' = [tasks EXCEPT
                            ![i] = Ended(@, "done", turn.attendees)]
             /\ remote' = served
      ELSE IF session # "open"
        THEN /\ tasks' = [tasks EXCEPT ![i] = Ended(@, "failed", <<>>)]
             /\ remote' = served
      ELSE /\ tasks' = [tasks EXCEPT
                          ![i].attendees = turn.attendees,
                          ![i].continuation = turn.continuation,
                          ![i].net = Sent(AttendeesUrl(
                                       tasks[i].organization_id,
                                       turn.continuation))]
           /\ remote' = [served EXCEPT !.att[i].requests = @ + 1]

\* The loop resumes a task only after the first step of every task, and
\* no longer once asyncio.run has ended.
get_attendees_by_org_resume(i) ==
  /\ tasks[i].st = "waiting"
  /\ UNCHANGED <<host, dirs>>
  /\ \A j \in 1..N : tasks[j].st # "ready"
  /\ ~cli.exited
  /\ \E data \in {FetchError}
         \cup AttendeeResponses(tasks[i].net.url.organization_id,
                                remote.att[i].requests,
                                Paginations(remote.att[i].requests)) :
       get_attendees_by_org_on(i, data)
  /\ UNCHANGED <<pc, session, lister, organizations, results, all_attendees,
                 file, summary, cli>>

\* ------------------------------------------------------------------------
\* main after gather
\* ------------------------------------------------------------------------
\* GatherResults with the results in the reverse of the task order.
GatherResultsReversed(ts) == [i \in 1..Len(ts) |-> ts[Len(ts) + 1 - i].ret]

\* The list gather returns: the result of every task, in the order of the
\* awaitables passed to it.
GatherResults(ts) == [i \in 1..Len(ts) |-> ts[i].ret]

\* gather returns once every task has returned: main flattens the results.
main_gather_returns ==
  /\ pc = "FetchingAttendees"
  /\ UNCHANGED <<host, dirs>>
  /\ \A i \in 1..N : tasks[i].st = "done"
  /\ results' = GatherResults(tasks)
  /\ all_attendees' = Flatten(GatherResults(tasks))
  /\ pc' = "Exporting"
  /\ UNCHANGED <<session, lister, organizations, tasks, file, summary, cli,
                 remote>>

\* main_gather_raises as gather(..., return_exceptions=True) followed by a
\* filter would behave: once every task has ended, main goes on with the
\* results of the tasks that returned.
main_gather_drops_failed ==
  /\ pc = "FetchingAttendees"
  /\ UNCHANGED <<host, dirs>>
  /\ \E i \in 1..N : tasks[i].st = "failed"
  /\ \A i \in 1..N : tasks[i].st \in {"done", "failed"}
  /\ results' = [i \in 1..N |-> tasks[i].ret]
  /\ all_attendees' = Flatten([i \in 1..N |-> tasks[i].ret])
  /\ pc' = "Exporting"
  /\ UNCHANGED <<session, lister, organizations, tasks, file, summary, cli,
                 remote>>

\* gather raises in main as soon as one task has failed: the exception is
\* propagated at once and the other tasks are neither cancelled nor awaited.
main_gather_raises ==
  /\ pc = "FetchingAttendees"
  /\ UNCHANGED <<host, dirs>>
  /\ \E i \in 1..N : tasks[i].st = "failed"
  /\ main_except
  /\ UNCHANGED <<lister, organizations, tasks, results, all_attendees, file,
                 summary, cli, remote>>

\* Summary over the organizations that have attendees only.
SummaryOfNonEmpty(orgs, res) ==
  LET kept == SelectSeq([i \in 1..Len(res) |-> i], LAMBDA i : res[i] # <<>>)
  IN  [k \in 1..Len(kept) |->
         [name |-> orgs[kept[k]].name, count |-> Len(res[kept[k]])]]

\* The lines main logs after the export: one per pair of zip(organizations,
\* results), the organization's name and the length of its result.
Summary(orgs, res) ==
  [i \in 1..(IF Len(orgs) <= Len(res) THEN Len(orgs) ELSE Len(res)) |->
     [name |-> orgs[i].name, count |-> Len(res[i])]]

\* Where the I/O of an export of n attendees may fail: at open(), at the
\* header, at the first row, at the last row, or nowhere (n + 2).
FaultPoints(n) == {0, 1, 2, n + 1, n + 2}

\* main exports: os.makedirs("data", exist_ok=True),
\* export_attendees_to_csv, the summary, and the exit of the `async with`.
\* open() raises FileNotFoundError when the directory of output_file does
\* not exist.  An exception of the export leaves main.
main_export ==
  /\ pc = "Exporting"
  /\ dirs' = dirs \cup {"data"}
  /\ UNCHANGED host
  /\ \E fault \in IF output_file.dir \in dirs' \cup {""}
                    THEN FaultPoints(Len(all_attendees)) ELSE {0} :
       LET out == export_attendees_to_csv(all_attendees, file, fault)
       IN  /\ file' = out.file
           /\ IF out.raised
                THEN /\ main_except
                     /\ UNCHANGED summary
                ELSE /\ summary' = Summary(organizations, results)
                     /\ session' = "closed"
                     /\ pc' = "Done"
  /\ UNCHANGED <<lister, organizations, tasks, results, all_attendees, cli,
                 remote>>

\* ------------------------------------------------------------------------
\* generate: asyncio.run(main(...)) ends
\* ------------------------------------------------------------------------
\* asyncio.run cancels every task that is still pending when main has
\* ended.
CancelPending(ts) ==
  [i \in 1..Len(ts) |->
     IF ts[i].st \in {"ready", "waiting"}
       THEN Ended(ts[i], "cancelled", <<>>) ELSE ts[i]]

\* generate_exit with the confirmation printed in a finally clause.
generate_exit_always_confirms ==
  /\ pc \in {"Done", "Failed"}
  /\ UNCHANGED <<host, dirs>>
  /\ ~cli.exited
  /\ tasks' = CancelPending(tasks)
  /\ cli' = [exited |-> TRUE, code |-> IF pc = "Done" THEN 0 ELSE 1,
             confirmed |-> TRUE]
  /\ UNCHANGED <<pc, session, lister, organizations, results, all_attendees,
                 file, summary, remote>>

\* generate after asyncio.run: the confirmation and exit code 0 when main
\* returned, exit code 1 when main raised.
generate_exit ==
  /\ pc \in {"Done", "Failed"}
  /\ UNCHANGED <<host, dirs>>
  /\ ~cli.exited
  /\ tasks' = CancelPending(tasks)
  /\ cli' = IF pc = "Done"
              THEN [exited |-> TRUE, code |-> 0, confirmed |-> TRUE]
              ELSE [exited |-> TRUE, code |-> 1, confirmed |-> FALSE]
  /\ UNCHANGED <<pc, session, lister, organizations, results, all_attendees,
                 file, summary, remote>>

Next ==
  \/ import_cli
  \/ common
  \/ main_start
  \/ get_my_organizations_resume
  \/ \E i \in 1..N : get_attendees_by_org_start(i)
  \/ \E i \in 1..N : get_attendees_by_org_resume(i)
  \/ main_gather_returns
  \/ main_gather_raises
  \/ main_export
  \/ generate_exit

Spec == Init /\ [][Next]_vars

\* ------------------------------------------------------------------------
\* The export of arbitrary attendee records to arbitrary paths
\* ------------------------------------------------------------------------
\* The mapping f without the keys outside ks.
Restrict(f, ks) == [k \in ks |-> f[k]]

\* What the remote may send as event.name and event.start: the mapping, an
\* empty mapping, or (name) a JSON null.
EventNames == { M([text |-> S("Gala")]), EmptyMap, Null }
EventStarts == { M([utc |-> S("2024-05-01T00:00:00Z")]), EmptyMap }

\* The event sub-mappings: every subset of the keys, and a JSON null.
Events ==
  { M(Restrict([organization_id |-> S("1"), name |-> nm, start |-> st], ks)) :
      nm \in EventNames, st \in EventStarts,
      ks \in SUBSET {"organization_id", "name", "start"} }
  \cup {Null}

ProfileKeys == {"name", "email", "age", "gender", "cell_phone"}

\* The profile sub-mappings: none, one, all but one or all of the keys; one
\* with a JSON null as email; and a JSON null.
Profiles ==
  { M(Restrict([name |-> S("Jane Doe"), email |-> S("jane@x.com"),
                age |-> S("30"), gender |-> S("F"),
                cell_phone |-> S("555")], ks)) :
      ks \in {q \in SUBSET ProfileKeys : Cardinality(q) \in {0, 1, 4, 5}} }
  \cup { M([name |-> S("Jane Doe"), email |-> Null]), Null }

\* The attendee records: every subset of the four top-level keys, over
\* every event and profile, checked in or not.
AttendeeShapes ==
  { M(Restrict([event_id |-> S("E1"), checked_in |-> B(ci), event |-> ev,
                profile |-> pr], ks)) :
      ci \in BOOLEAN, ev \in Events, pr \in Profiles,
      ks \in SUBSET {"event_id", "checked_in", "event", "profile"} }

\* The lists the exporter is applied to: no record, one record, or a
\* complete record followed by one record.
ExportInputs ==
  {<<>>} \cup { <<a>> : a \in AttendeeShapes }
         \cup { <<FullAttendee(1, 1), a>> : a \in AttendeeShapes }

\* The paths --output-file may name: the default, a file in another
\* directory, a file in the working directory.
OutputFiles ==
  { DefaultOutputFile, [dir |-> "out", name |-> "attendees.csv"],
    [dir |-> "", name |-> "attendees.csv"] }

\* The attendees, the output path and the existing directories of an
\* export: any list to the default path, or one record to any path.
ExportCases ==
  { <<a, DefaultOutputFile, {}>> : a \in ExportInputs }
  \cup { <<(<<FullAttendee(1, 1)>>), p, d>> :
           p \in OutputFiles, d \in SUBSET {"data", "out"} }

\* main when gather has returned the attendees of one organization, served
\* in one page.
InitExport ==
  \E case \in ExportCases :
    /\ all_attendees = case[1]
    /\ output_file = case[2]
    /\ dirs = case[3]
    /\ file \in {NoFile} \cup (IF output_file.dir \in dirs \cup {""}
                                 THEN {StaleFile} ELSE {})
    /\ pc = "Exporting"
    /\ session = "open"
    /\ lister = [continuation |-> None, organizations |-> <<>>, net |-> Idle]
    /\ organizations = <<Org(1)>>
    /\ tasks = <<Ended(ReadyTask(1), "done", all_attendees)>>
    /\ results = <<all_attendees>>
    /\ summary = <<>>
    /\ cli = [exited |-> FALSE, code |-> 0, confirmed |-> FALSE]
    /\ remote =
         [list |-> [NoTraffic EXCEPT !.requests = 1, !.pages = 1,
                                     !.items = <<Org(1)>>],
          att |-> << [NoTraffic EXCEPT !.requests = 1, !.pages = 1,
                                       !.items = all_attendees] >>]
    /\ proc = Started("generate")
    /\ vis = NoVis
    /\ legacy = NoLegacy

NextExport ==
  \/ main_export
  \/ generate_exit

SpecExport == InitExport /\ [][NextExport]_vars

\* ------------------------------------------------------------------------
\* The visualize command
\* ------------------------------------------------------------------------
\* The chart files of generate_visualizations, in the order it writes them.
Charts == <<"events_per_month.svg", "attendees.svg", "frequent.svg">>

\* The rows an exported CSV may hold, as far as the charts read them: the
\* event start is a date, a text that is no date, or empty; the attendee
\* name and the e-mail address are given, "Info Requested", or empty.
CsvRows ==
  { <<"1", "E1", "Gala", start, "True", name, email, "30", "F", "555">> :
      start \in {"2024-05-01T00:00:00Z", "soon", ""},
      name \in {"Jane Doe", "Info Requested", ""},
      email \in {"jane@x.com", ""} }

\* The files at the input path: none, a file without any line, or the
\* header and up to two rows.
CsvFiles ==
  { NoFile, [exists |-> TRUE, lines |-> <<>>],
    [exists |-> TRUE, lines |-> <<HEADERS>>] }
  \cup { [exists |-> TRUE, lines |-> <<HEADERS, a>>] : a \in CsvRows }
  \cup { [exists |-> TRUE, lines |-> <<HEADERS, a, b>>] :
           a \in CsvRows, b \in CsvRows }

\* The visualize command before its body runs, with its --output-dir.
VisIdle(output_dir) ==
  [st |-> "idle", output_dir |-> output_dir, charts |-> {}, code |-> 0,
   success |-> FALSE]

\* load_data: None when the file does not exist; pd.read_csv raises
\* EmptyDataError on a file without header line; else the rows.
load_data(f) ==
  IF ~f.exists THEN [raised |-> FALSE, df |-> None]
  ELSE IF f.lines = <<>> THEN [raised |-> TRUE, df |-> None]
  ELSE [raised |-> FALSE, df |-> Tail(f.lines)]

\* preprocess_data: pd.to_datetime raises on an event_start that is no
\* date; an empty cell becomes NaT.
preprocess_data(df) ==
  [raised |-> \E r \in 1..Len(df) : df[r][4] \notin {"2024-05-01T00:00:00Z", ""},
   df |-> df]

\* The rows visualize_frequent_attendees keeps: name and e-mail address
\* given and not "Info Requested".
frequent_attendees(df) ==
  SelectSeq(df, LAMBDA row : /\ row[6] \notin {"Info Requested", ""}
                             /\ row[7] \notin {"Info Requested", ""})

\* generate_visualizations on the file f: the charts it has written and
\* whether it raised.  fault = k: plotting or saving chart k raises;
\* fault = 0: nothing fails.  A missing input file makes it return at once,
\* and the third chart is written only when frequent_attendees is not
\* empty.
generate_visualizations(f, fault) ==
  LET loaded == load_data(f)
      prepared == preprocess_data(loaded.df)
      third == IF frequent_attendees(prepared.df) = <<>> THEN {}
               ELSE {Charts[3]}
  IN  IF loaded.raised THEN [raised |-> TRUE, charts |-> {}]
      ELSE IF loaded.df = None THEN [raised |-> FALSE, charts |-> {}]
      ELSE IF prepared.raised THEN [raised |-> TRUE, charts |-> {}]
      ELSE IF fault = 1 THEN [raised |-> TRUE, charts |-> {}]
      ELSE IF fault = 2 THEN [raised |-> TRUE, charts |-> {Charts[1]}]
      ELSE IF fault = 3 /\ third # {}
        THEN [raised |-> TRUE, charts |-> {Charts[1], Charts[2]}]
      ELSE [raised |-> FALSE,
            charts |-> {Charts[1], Charts[2]} \cup third]

\* The body of visualize: generate_visualizations creates the output
\* directory and writes the charts; the command prints the success message
\* when it returned and exits with code 1 when it raised.
visualize ==
  /\ proc.stage = "command"
  /\ proc.command = "visualize"
  /\ vis.st = "idle"
  /\ dirs' = dirs \cup {vis.output_dir}
  /\ \E fault \in 0..3 :
       LET out == generate_visualizations(file, fault)
       IN  vis' = [st |-> IF out.raised THEN "raised" ELSE "returned",
                   output_dir |-> vis.output_dir,
                   charts |-> out.charts,
                   code |-> IF out.raised THEN 1 ELSE 0,
                   success |-> ~out.raised]
  /\ UNCHANGED <<pc, session, lister, organizations, tasks, results,
                 all_attendees, file, summary, cli, remote, proc,
                 output_file, legacy>>

\* The process when the body of visualize starts: any file at the input
\* path data/attendees.csv, the output directory data or charts, which
\* exists or not.
InitVis ==
  /\ file \in CsvFiles
  /\ \E output_dir \in {"data", "charts"} :
       /\ vis = VisIdle(output_dir)
       /\ dirs \in { d \in SUBSET {"data", "charts"} :
                       file.exists => "data" \in d }
  /\ output_file = DefaultOutputFile
  /\ proc = Started("visualize")
  /\ legacy = NoLegacy
  /\ pc = "Idle"
  /\ session = "none"
  /\ lister = [continuation |-> None, organizations |-> <<>>, net |-> Idle]
  /\ organizations = <<>>
  /\ tasks = <<>>
  /\ results = <<>>
  /\ all_attendees = <<>>
  /\ summary = <<>>
  /\ cli = [exited |-> FALSE, code |-> 0, confirmed |-> FALSE]
  /\ remote = [list |-> NoTraffic, att |-> <<>>]

NextVis == visualize

SpecVis == InitVis /\ [][NextVis]_vars

\* ------------------------------------------------------------------------
\* The legacy synchronous module (src/eventbrite_cetd/eventbrite.py)
\* ------------------------------------------------------------------------
\* The url of a loop: built once, before the loop, from the organization id
\* alone.
LegacyUrl(fn, organization_id) ==
  IF fn = "get_my_organizations"
    THEN [path |-> "/users/me/organizations/", continuation |-> None]
    ELSE [path |-> "/organizations/{id}/attendees/",
          organization_id |-> organization_id,
          expand |-> "event",
          continuation |-> None]

\* The key of the items in the body a loop reads.
LegacyKey(fn) ==
  IF fn = "get_my_organizations" THEN "organizations" ELSE "attendees"

\* The first page of the collection as the API may hold it at the time of a
\* request: one item, or two.
LegacyPages(fn, organization_id) ==
  IF fn = "get_my_organizations"
    THEN { <<Org(1)>>, <<Org(1), Org(2)>> }
    ELSE { <<BareAttendee(organization_id, 1)>>,
           <<BareAttendee(organization_id, 1),
             BareAttendee(organization_id, 2)>> }

\* The JSON bodies of status 200 the API may send in answer to the r-th
\* request of a loop: items and pagination, or one of the two alone.
LegacyBodies(fn, organization_id, r) ==
  LET key == LegacyKey(fn)
      pages == LegacyPages(fn, organization_id)
  IN  { (key :> p) @@ ("pagination" :> pg) :
          p \in pages, pg \in MorePaginations(r) \cup LastPaginations }
        \cup { ("pagination" :> pg) :
                 pg \in {[has_more_items |-> PyTrue],
                         [has_more_items |-> PyFalse]} }
        \cup { (key :> p) : p \in pages }

\* requests.get raised: no connection, or the timeout passed.
RequestException == [raises |-> "RequestException"]

\* What requests.get may give for the r-th request of a loop: an exception,
\* a response of status 401 with the JSON body of an error, or a response
\* of status 200.
LegacyResponses(fn, organization_id, r) ==
  {RequestException}
    \cup {[status |-> 401, data |-> [error |-> "INVALID_AUTH"]]}
    \cup { [status |-> 200, data |-> d] :
             d \in LegacyBodies(fn, organization_id, r) }

\* The frame of a loop at its call, with what the remote received from it
\* (requested) and answered (served).
LegacyCall(fn, organization_id) ==
  [st |-> "looping", fn |-> fn, organization_id |-> organization_id,
   url |-> LegacyUrl(fn, organization_id), list |-> <<>>,
   has_more_items |-> PyTrue, raised |-> None,
   requested |-> <<>>, served |-> <<>>]

\* The frame after requests.get(url) gave `response`.
LegacyGot(frame, response) ==
  [frame EXCEPT !.requested = Append(@, frame.url),
                !.served = Append(@, response)]

\* The frame an exception left.
LegacyRaise(frame, exception) ==
  [frame EXCEPT !.st = "raised", !.raised = exception, !.list = <<>>]

\* list.extend(items) with the list replaced by the items.
LegacyExtendReplaces(list, items) == items

\* list.extend(items).
LegacyExtend(list, items) == list \o items

\* The end of an iteration: has_more_items = data["pagination"]
\* ["has_more_items"], then the test of `while`, and the return when it is
\* falsy.
LegacyWhile(frame, data) ==
  IF \/ "pagination" \notin DOMAIN data
     \/ "has_more_items" \notin DOMAIN data.pagination
    THEN LegacyRaise(frame, "KeyError")
    ELSE [frame EXCEPT
            !.has_more_items = data.pagination.has_more_items,
            !.st = IF Truthy(data.pagination.has_more_items)
                     THEN "looping" ELSE "returned"]

\* One iteration of the loop of get_my_organizations: the status is not
\* looked at, the body is decoded and data["organizations"] is extended
\* into the list.
legacy_get_my_organizations_on(frame, response) ==
  LET got == LegacyGot(frame, response)
  IN  IF "raises" \in DOMAIN response
        THEN LegacyRaise(got, response.raises)
        ELSE IF "organizations" \notin DOMAIN response.data
          THEN LegacyRaise(got, "KeyError")
          ELSE LegacyWhile(
                 [got EXCEPT
                    !.list = LegacyExtend(@, response.data.organizations)],
                 response.data)

\* One iteration of the loop of get_attendees_by_org: raise_for_status,
\* then data.get("attendees", []) is extended into the list.
legacy_get_attendees_by_org_on(frame, response) ==
  LET got == LegacyGot(frame, response)
  IN  IF "raises" \in DOMAIN response
        THEN LegacyRaise(got, response.raises)
        ELSE IF response.status >= 400
          THEN LegacyRaise(got, "HTTPError")
          ELSE LegacyWhile(
                 [got EXCEPT
                    !.list = LegacyExtend(
                               @, Get(response.data, "attendees", <<>>))],
                 response.data)

legacy_get_my_organizations ==
  /\ legacy.st = "looping"
  /\ legacy.fn = "get_my_organizations"
  /\ Len(legacy.requested) < MaxLegacyRequests
  /\ \E response \in LegacyResponses(legacy.fn, legacy.organization_id,
                                     Len(legacy.requested) + 1) :
       legacy' = legacy_get_my_organizations_on(legacy, response)
  /\ UNCHANGED <<pc, session, lister, organizations, tasks, results,
                 all_attendees, file, summary, cli, remote, proc,
                 output_file, dirs, vis>>

legacy_get_attendees_by_org ==
  /\ legacy.st = "looping"
  /\ legacy.fn = "get_attendees_by_org"
  /\ Len(legacy.requested) < MaxLegacyRequests
  /\ \E response \in LegacyResponses(legacy.fn, legacy.organization_id,
                                     Len(legacy.requested) + 1) :
       legacy' = legacy_get_attendees_by_org_on(legacy, response)
  /\ UNCHANGED <<pc, session, lister, organizations, tasks, results,
                 all_attendees, file, summary, cli, remote, proc,
                 output_file, dirs, vis>>

\* One call of get_my_organizations, or of get_attendees_by_org for one
\* organization, in a process that imported the module.
InitLegacy ==
  /\ \/ legacy = LegacyCall("get_my_organizations", None)
     \/ \E organization_id \in 1..MaxOrgs :
          legacy = LegacyCall("get_attendees_by_org", organization_id)
  /\ proc = Started("eventbrite.py")
  /\ output_file = DefaultOutputFile
  /\ vis = NoVis
  /\ pc = "Idle"
  /\ session = "none"
  /\ lister = [continuation |-> None, organizations |-> <<>>, net |-> Idle]
  /\ organizations = <<>>
  /\ tasks = <<>>
  /\ results = <<>>
  /\ all_attendees = <<>>
  /\ file = NoFile
  /\ dirs = {}
  /\ summary = <<>>
  /\ cli = [exited |-> FALSE, code |-> 0, confirmed |-> FALSE]
  /\ remote = [list |-> NoTraffic, att |-> <<>>]

NextLegacy ==
  \/ legacy_get_my_organizations
  \/ legacy_get_attendees_by_org

SpecLegacy == InitLegacy /\ [][NextLegacy]_vars

\* ------------------------------------------------------------------------
\* Properties
\* ------------------------------------------------------------------------
RECURSIVE SumItems(_)
\* The number of items the remote served over all loops of ts.
SumItems(ts) ==
  IF ts = <<>> THEN 0 ELSE Len(Head(ts).items) + SumItems(Tail(ts))

RECURSIVE SumRequests(_)
\* The number of requests the remote received over all loops of ts.
SumRequests(ts) ==
  IF ts = <<>> THEN 0 ELSE Head(ts).requests + SumRequests(Tail(ts))

\* main holds the list gather returned.
HasResults == pc \in {"Exporting", "Done"}

\* The organization id an attendee record names.
OrganizationOf(attendee) == attendee.v.event.v.organization_id.v

\* C1: whenever main holds the results of gather, there is one result per
\* listed organization, and result i is the list of attendees the remote
\* served to the requests for organization i (every record of it names
\* that organization), whatever the order in which the tasks finished.
C1_ResultsFollowOrganizations ==
  HasResults =>
    /\ Len(results) = Len(organizations)
    /\ \A i \in 1..Len(organizations) :
         /\ results[i] = remote.att[i].items
         /\ \A k \in 1..Len(results[i]) :
              OrganizationOf(results[i][k]) = organizations[i].id

\* Two organizations, both with attendees, the second fetched in more
\* requests than the first.
C1_Witness ==
  /\ pc = "Done"
  /\ Len(results) = 2
  /\ results[1] # <<>>
  /\ results[2] # <<>>
  /\ results[1] # results[2]
  /\ remote.att[2].requests > remote.att[1].requests

\* C2: once the fetch of one organization has raised, main never reaches
\* the export (the file at the output path stays as it was before the
\* run), main can raise out of gather, and the command ends with exit code
\* 1 and without the confirmation.
C2_FailedFetchEndsRunWithoutExport ==
  (\E i \in 1..N : tasks[i].st = "failed") =>
    /\ pc \in {"FetchingAttendees", "Failed"}
    /\ file \in {NoFile, StaleFile}
    /\ pc = "FetchingAttendees" => ENABLED main_gather_raises
    /\ cli.exited => (cli.code = 1 /\ ~cli.confirmed)

\* One fetch failed, another returned attendees, and the command has ended.
C2_Witness ==
  /\ cli.exited
  /\ \E i \in 1..N : tasks[i].st = "failed"
  /\ \E i \in 1..N : tasks[i].st = "done" /\ tasks[i].ret # <<>>

\* The file holds an export that was cut short: the header and only some
\* of the rows, or not even the header.
HalfWritten ==
  /\ file.exists
  /\ file # StaleFile
  /\ file.lines # ExportLines(all_attendees)

\* C3: after a failed run the file at the output path is neither a
\* half-written export nor the export of an earlier run.
C3_FailedRunLeavesNoPartialOrStaleFile ==
  pc = "Failed" => (~HalfWritten /\ file # StaleFile)

\* C4: a task whose loop has ended normally sent exactly one request more
\* than the pages that reported has_more_items truthy, every request was
\* answered, and it returned the concatenation of the attendees of all
\* pages served to it, in page order; a task that is still in its loop has
\* one request in flight beyond the pages served.
C4_PaginationFollowsTheFlag ==
  \A i \in 1..N :
    /\ tasks[i].st = "done" =>
         /\ remote.att[i].requests = remote.att[i].more + 1
         /\ remote.att[i].pages = remote.att[i].requests
         /\ tasks[i].ret = remote.att[i].items
    /\ tasks[i].st = "waiting" =>
         /\ remote.att[i].requests = remote.att[i].more + 1
         /\ remote.att[i].pages = remote.att[i].more
         /\ tasks[i].attendees = remote.att[i].items

\* A task returned after two pages with more items and a last page, with
\* the attendees of more than one page.
C4_Witness ==
  \E i \in 1..N :
    /\ tasks[i].st = "done"
    /\ remote.att[i].more = 2
    /\ remote.att[i].requests = 3
    /\ Len(tasks[i].ret) > 3

\* C5: a task hands over a result only when every request of it was
\* answered and the last page reported no more items; a task that failed
\* hands over no attendees, and main never holds results while a task has
\* failed.
C5_NoPartialResultOfAnOrganization ==
  /\ \A i \in 1..N :
       /\ tasks[i].st = "done" =>
            /\ remote.att[i].pages = remote.att[i].requests
            /\ remote.att[i].pages = remote.att[i].more + 1
       /\ tasks[i].st = "failed" => tasks[i].ret = <<>>
       /\ tasks[i].st # "done" => ~HasResults
  /\ HasResults => \A i \in 1..N : results[i] = remote.att[i].items

\* A request of a task failed after an earlier page with attendees had been
\* served, and main has raised.
C5_Witness ==
  /\ pc = "Failed"
  /\ \E i \in 1..N :
       /\ tasks[i].st = "failed"
       /\ remote.att[i].items # <<>>
       /\ remote.att[i].pages < remote.att[i].requests

\* C6: while get_my_organizations is in its loop, its request in flight is
\* the first one without continuation, or a later one with the token of
\* the page before when that token is non-empty and without continuation
\* otherwise; it has sent one request more than the pages that reported
\* has_more_items truthy; and the list main receives is the concatenation
\* of the organizations of all pages, in page order.
C6_OrganizationsLoop ==
  /\ pc = "ListingOrganizations" =>
       /\ lister.net.st = "sent"
       /\ lister.net.url.path = "/users/me/organizations/"
       /\ lister.net.url.continuation =
            (IF remote.list.requests > 1 /\ remote.list.cursor \notin {None, ""}
               THEN remote.list.cursor ELSE None)
       /\ remote.list.requests = remote.list.more + 1
       /\ remote.list.pages = remote.list.more
       /\ lister.organizations = remote.list.items
  /\ pc \in {"FetchingAttendees", "Exporting", "Done"} =>
       /\ remote.list.requests = remote.list.more + 1
       /\ remote.list.pages = remote.list.requests
       /\ organizations = remote.list.items

\* The second request is in flight with the token of the first page, which
\* carried an organization.
C6_Witness ==
  /\ pc = "ListingOrganizations"
  /\ remote.list.requests = 2
  /\ lister.net.url.continuation = "t1"
  /\ lister.organizations # <<>>

\* C7: after a successful run the file holds the header and one row per
\* attendee record the remote served, over all organizations.
C7_RowCountIsAttendeeCount ==
  pc = "Done" =>
    /\ file.exists
    /\ Len(file.lines) = 1 + SumItems(remote.att)

\* A successful run over two organizations with attendees, equal records
\* among them.
C7_Witness ==
  /\ pc = "Done"
  /\ N = 2
  /\ remote.att[1].items # <<>>
  /\ remote.att[2].items # <<>>
  /\ Len(file.lines) >= 7
  /\ file.lines[2] = file.lines[4]

\* The steps main may take from one phase to the next.
PhaseSteps ==
  { <<"Idle", "ListingOrganizations">>,
    <<"ListingOrganizations", "FetchingAttendees">>,
    <<"FetchingAttendees", "Exporting">>,
    <<"Exporting", "Done">>,
    <<"Idle", "Failed">>,
    <<"ListingOrganizations", "Failed">>,
    <<"FetchingAttendees", "Failed">>,
    <<"Exporting", "Failed">> }

\* C8: main changes phase only along Idle, ListingOrganizations,
\* FetchingAttendees, Exporting, Done, or into Failed; an attendee request
\* is sent only in FetchingAttendees; the file changes only in Exporting,
\* when every task has returned; main is Done only when no task failed and
\* the file holds the complete export; and the command exits with code 1
\* exactly when main ended in Failed.
C8_LinearRun ==
  [][ /\ pc' # pc => <<pc, pc'>> \in PhaseSteps
      /\ SumRequests(remote'.att) > SumRequests(remote.att) =>
           (pc = "FetchingAttendees" /\ pc' = "FetchingAttendees")
      /\ file' # file =>
           (pc = "Exporting" /\ \A i \in 1..N : tasks[i].st = "done")
      /\ pc' = "Done" =>
           /\ \A i \in 1..N : tasks'[i].st = "done"
           /\ organizations' = remote'.list.items
           /\ file'.lines = ExportLines(all_attendees')
      /\ (cli'.exited /\ ~cli.exited) =>
           /\ (pc = "Failed") = (cli'.code = 1)
           /\ (pc = "Done") = (cli'.code = 0) ]_vars

\* A run that went through every phase and failed in the export, and whose
\* command has ended.
C8_Witness ==
  /\ pc = "Failed"
  /\ cli.exited
  /\ cli.code = 1
  /\ results # <<>>
  /\ HalfWritten

\* C9: after a successful run the summary has one entry per listed
\* organization, in list order, each with the organization's name and the
\* number of attendees the remote served for it; the counts add up to the
\* number of data rows of the file.
C9_SummaryPerOrganization ==
  pc = "Done" =>
    /\ organizations = remote.list.items
    /\ Len(summary) = Len(organizations)
    /\ \A i \in 1..Len(organizations) :
         /\ summary[i].name = organizations[i].name
         /\ summary[i].count = Len(remote.att[i].items)
    /\ SumItems(remote.att) = Len(file.lines) - 1

\* The first organization has attendees, the second a single empty page.
C9_Witness ==
  /\ pc = "Done"
  /\ Len(summary) = 2
  /\ summary[1].count = 3
  /\ summary[2].count = 0
  /\ remote.att[2].requests = 1
  /\ Len(file.lines) = 4

\* C10: when the failure has left main, no task of gather is still
\* pending: each has returned, failed or been cancelled.
C10_NoPendingSiblingWhenFailureLeavesMain ==
  pc = "Failed" => \A i \in 1..N : tasks[i].st \notin {"ready", "waiting"}

\* The fields the columns are taken from, in column order, as the keys that
\* lead to them.
ColumnPaths ==
  << <<"event", "organization_id">>, <<"event_id">>,
     <<"event", "name", "text">>, <<"event", "start", "utc">>,
     <<"checked_in">>, <<"profile", "name">>, <<"profile", "email">>,
     <<"profile", "age">>, <<"profile", "gender">>,
     <<"profile", "cell_phone">> >>

\* The columns of the optional fields: those of event and profile.
OptionalColumns == {1, 3, 4, 6, 7, 8, 9, 10}

RECURSIVE Lookup(_, _)
\* Following the keys of path in the JSON value v: the value found; or
\* "absent" when a key is missing from a mapping; or "broken" when a value
\* on the way is no mapping.
Lookup(v, path) ==
  IF path = <<>> THEN [at |-> "found", v |-> v]
  ELSE IF v.t # "map" THEN [at |-> "broken"]
  ELSE IF Head(path) \notin DOMAIN v.v THEN [at |-> "absent"]
  ELSE Lookup(v.v[Head(path)], Tail(path))

\* Every field of the attendee is there or missing: no value on the way to
\* a field is a JSON null.
OnlyMissing(attendee) ==
  \A c \in 1..Len(ColumnPaths) :
    Lookup(attendee, ColumnPaths[c]).at # "broken"

\* C11: for every attendee record whose optional fields are present or
\* missing at any nesting level, building the row does not raise, and once
\* the export has succeeded the row of the record holds the empty string in
\* the column of every missing optional field and the text None or null in
\* no column.
C11_MissingOptionalFieldsAreEmptyCells ==
  \A r \in 1..Len(all_attendees) :
    OnlyMissing(all_attendees[r]) =>
      /\ ~RowRaises(all_attendees[r])
      /\ FirstBadRow(all_attendees) # r
      /\ pc = "Done" =>
           /\ Len(file.lines) > r
           /\ \A c \in OptionalColumns :
                Lookup(all_attendees[r], ColumnPaths[c]).at = "absent" =>
                  file.lines[r + 1][c] = ""
           /\ \A c \in 1..Len(ColumnPaths) :
                file.lines[r + 1][c] \notin {"None", "null"}

\* An exported record without event and with a profile that has a name
\* only: eight optional fields are missing at three nesting levels.
C11_Witness ==
  /\ pc = "Done"
  /\ Len(all_attendees) = 2
  /\ Lookup(all_attendees[2], <<"event">>).at = "absent"
  /\ Lookup(all_attendees[2], <<"profile", "name">>).at = "found"
  /\ Lookup(all_attendees[2], <<"profile", "email">>).at = "absent"
  /\ file.lines[3][1] = ""
  /\ file.lines[3][6] = "Jane Doe"

\* The text of the field at `path` of the attendee in a CSV cell: the
\* string itself, True or False for a boolean, and nothing for a missing
\* field or a JSON null.
CellOf(attendee, path) ==
  LET field == Lookup(attendee, path)
  IN  IF field.at # "found" THEN ""
      ELSE CASE field.v.t = "str" -> field.v.v
             [] field.v.t = "bool" -> (IF field.v.v THEN "True" ELSE "False")
             [] OTHER -> ""

\* C12: a file that was exported holds, first, the header organization_id,
\* event_id, event_name, event_start, checked_in, attendee_name, email, age,
\* gender, cell_phone, and then one row of ten cells per attendee, in list
\* order: event.organization_id, event_id, event.name.text,
\* event.start.utc, checked_in as True or False, profile.name,
\* profile.email, profile.age, profile.gender, profile.cell_phone.
C12_HeaderAndProjection ==
  pc = "Done" =>
    /\ Len(file.lines) = Len(all_attendees) + 1
    /\ file.lines[1] =
         <<"organization_id", "event_id", "event_name", "event_start",
           "checked_in", "attendee_name", "email", "age", "gender",
           "cell_phone">>
    /\ \A r \in 1..Len(all_attendees) :
         /\ Len(file.lines[r + 1]) = 10
         /\ \A c \in {1, 2, 3, 4, 6, 7, 8, 9, 10} :
              file.lines[r + 1][c] = CellOf(all_attendees[r], ColumnPaths[c])
         /\ file.lines[r + 1][5] \in {"True", "False"}
         /\ file.lines[r + 1][5] = "True" <=>
              Lookup(all_attendees[r], <<"checked_in">>) =
                [at |-> "found", v |-> B(TRUE)]

\* An export of two records: a complete one that checked in, and one that
\* did not check in and has an event without name.
C12_Witness ==
  /\ pc = "Done"
  /\ Len(file.lines) = 3
  /\ file.lines[2] =
       <<"1", "E1", "Gala", "2024-05-01T00:00:00Z", "True", "Jane Doe",
         "jane@x.com", "30", "F", "555">>
  /\ file.lines[3] =
       <<"1", "E1", "", "2024-05-01T00:00:00Z", "False", "Jane Doe",
         "jane@x.com", "30", "F", "555">>
  /\ Lookup(all_attendees[2], <<"checked_in">>).at = "found"

\* C13: whatever path --output-file names, once main has gone through its
\* export step after fetches that all succeeded, the directory of the
\* output file exists: the exporter was not invoked on a path whose
\* directory is absent.
C13_ParentDirectoryOfEveryOutputPath ==
  (pc \in {"Done", "Failed"} /\ \A i \in 1..N : tasks[i].st = "done") =>
    output_file.dir \in dirs \cup {""}

\* C14 (as stated): a failed GET is not sent again and every page URL is
\* requested at most once in a run; so no pagination loop follows a request
\* by a request for the same URL.
C14_EveryPageUrlRequestedOnce ==
  [][ /\ \A i \in 1..N :
           ( /\ tasks[i].net.st = "sent"
             /\ tasks'[i].net.st = "sent"
             /\ remote'.att[i].requests > remote.att[i].requests ) =>
             tasks'[i].net.url # tasks[i].net.url
      /\ ( /\ lister.net.st = "sent"
           /\ lister'.net.st = "sent"
           /\ remote'.list.requests > remote.list.requests ) =>
           lister'.net.url # lister.net.url ]_vars

\* C14 (amended): a step of a task sends at most one GET; every request
\* after the first is sent in the step that received a page with
\* has_more_items truthy, never after a failed GET; a task whose GET failed
\* ends with the exception, which gather raises in main while main awaits
\* it, and its loop sends no further request; and a loop requests the URL
\* of its last request again only when the page served for it has an empty
\* or absent continuation token or the token of that request.
C14_NoRetryAfterFailedGet ==
  [][ \A i \in 1..N :
        LET was == remote.att[i]
            now == remote'.att[i]
        IN  /\ now.requests <= was.requests + 1
            /\ (now.requests > was.requests /\ was.requests > 0) =>
                 /\ now.pages = was.pages + 1
                 /\ now.more = was.more + 1
            /\ ( /\ tasks[i].st = "waiting"
                 /\ tasks'[i].st # "cancelled"
                 /\ now.requests = was.requests
                 /\ now.pages = was.pages
                 /\ tasks'[i] # tasks[i] ) =>
                 tasks'[i].st = "failed"
            /\ tasks[i].st = "failed" =>
                 /\ now.requests = was.requests
                 /\ tasks'[i].st = "failed"
                 /\ pc = "FetchingAttendees" => ENABLED main_gather_raises
            /\ ( /\ now.requests > was.requests
                 /\ tasks[i].net.st = "sent"
                 /\ tasks'[i].net.url = tasks[i].net.url ) =>
                 now.cursor \in {None, "", tasks[i].net.url.continuation}
    ]_vars

\* The second GET of a task failed and was not sent again: main raised and
\* the command has ended with two requests for that organization.
C14_Witness ==
  /\ cli.exited
  /\ pc = "Failed"
  /\ \E i \in 1..N :
       /\ tasks[i].st = "failed"
       /\ remote.att[i].requests = 2
       /\ remote.att[i].pages = 1
       /\ remote.att[i].more = 1

\* C15: PRIVATE_TOKEN is looked up once, by the import at process start,
\* and never again; every request is sent with the header built from that
\* one lookup; and when the variable is unset the process ends in the
\* import with a non-zero status: main is never entered, no request is
\* sent, no directory is created and the file at the output path is not
\* written.
C15_TokenReadOnceAndAbsenceIsFatal ==
  /\ proc.reads = (IF proc.stage = "start" THEN 0 ELSE 1)
  /\ (remote.list.requests > 0 \/ SumRequests(remote.att) > 0) =>
       proc.authorization = [scheme |-> "Bearer", token |-> Token]
  /\ proc.token = None =>
       /\ proc.stage \in {"start", "crashed"}
       /\ proc.stage = "crashed" => proc.code # 0
       /\ proc.authorization = None
       /\ pc = "Idle"
       /\ session = "none"
       /\ remote = [list |-> NoTraffic, att |-> <<>>]
       /\ file \in {NoFile, StaleFile}
       /\ dirs = (IF file.exists THEN {output_file.dir} ELSE {})
       /\ ~cli.exited

\* The process has ended in the import for want of the variable, next to
\* the export of an earlier run.
C15_Witness ==
  /\ proc.token = None
  /\ proc.stage = "crashed"
  /\ proc.reads = 1
  /\ file = StaleFile

\* C16: the generate command has ended only after main returned or
\* raised; it ended with a non-zero exit code exactly when main raised and
\* with the confirmation printed exactly when main returned; and the
\* confirmation is not printed while the command runs.
C16_ExitCodeAndConfirmationFollowMain ==
  /\ cli.exited =>
       /\ pc \in {"Done", "Failed"}
       /\ (cli.code # 0) <=> (pc = "Failed")
       /\ cli.confirmed <=> (pc = "Done")
  /\ ~cli.exited => (~cli.confirmed /\ cli.code = 0)

\* The command has ended with the confirmation after a run that exported
\* the attendees of two organizations.
C16_Witness ==
  /\ cli.exited
  /\ cli.confirmed
  /\ cli.code = 0
  /\ pc = "Done"
  /\ Len(organizations) = 2
  /\ Len(file.lines) = 7

\* C17: whenever generate_visualizations has returned without raising, the
\* three chart files are written, and the visualize command reports
\* success only with the three chart files written.
C17_ThreeChartsWheneverReturned ==
  /\ vis.st = "returned" =>
       vis.charts = {Charts[1], Charts[2], Charts[3]}
  /\ (vis.st # "idle" /\ vis.success) =>
       vis.charts = {Charts[1], Charts[2], Charts[3]}

\* C18: a process that was given -V or --debug-info never enters a command
\* body, sends no request and leaves the files and directories as they
\* were; and when it has ended it has printed the version (for -V) or the
\* debug information (for --debug-info) and its exit status is 0.
C18_FlagPrintsAndExitsBeforeAnyCommand ==
  proc.flag # "" =>
    /\ proc.stage # "command"
    /\ pc = "Idle"
    /\ session = "none"
    /\ remote = [list |-> NoTraffic, att |-> <<>>]
    /\ file \in {NoFile, StaleFile}
    /\ dirs = (IF file.exists THEN {output_file.dir} ELSE {})
    /\ proc.stage \in {"exited", "crashed"} =>
         /\ proc.printed = (IF proc.flag = "-V" THEN "version"
                                                ELSE "debug info")
         /\ proc.code = 0

\* C19: after every step, each organization's loop has at most one request
\* that the remote has not answered, so the request for page j + 1 exists
\* only when page j was served, and a task with a request in flight is
\* waiting for exactly that one; and every attendee request is sent while
\* the one session of main is open.
C19_OneRequestInFlightPerOrganization ==
  [][ \A i \in 1..Len(tasks') :
        LET now == remote'.att[i]
        IN  /\ now.pages <= now.requests
            /\ now.requests <= now.pages + 1
            /\ tasks'[i].net.st = "sent" =>
                 /\ tasks'[i].st = "waiting"
                 /\ now.requests = now.pages + 1
                 /\ tasks'[i].net.url.organization_id =
                      tasks'[i].organization_id
            /\ (i <= N /\ now.requests > remote.att[i].requests) =>
                 /\ session = "open"
                 /\ session' = "open"
                 /\ now.requests = remote.att[i].requests + 1
    ]_vars

\* The requests of two organizations are in flight at once, the first for
\* the organization's second page, and the session is open.
C19_Witness ==
  /\ N = 2
  /\ session = "open"
  /\ tasks[1].net.st = "sent"
  /\ tasks[2].net.st = "sent"
  /\ tasks[1].net.url.organization_id # tasks[2].net.url.organization_id
  /\ remote.att[1].requests = 2
  /\ remote.att[1].pages = 1
  /\ remote.att[2].requests = 1

RECURSIVE ServedInListOrder(_)
\* The items the remote served to the loops of ts, loop after loop, each
\* loop's items in the order it served them.
ServedInListOrder(ts) ==
  IF ts = <<>> THEN <<>> ELSE Head(ts).items \o ServedInListOrder(Tail(ts))

\* C20: after a successful run, data row r of the file is the projection of
\* the r-th record of the concatenation, in organization list order, of
\* the attendees the remote served for each organization, page after page
\* and in the order within each page, however the steps of the tasks
\* interleaved.
C20_RowOrderIsListPageAndItemOrder ==
  pc = "Done" =>
    LET flat == ServedInListOrder(remote.att)
    IN  /\ Len(file.lines) = Len(flat) + 1
        /\ all_attendees = flat
        /\ \A r \in 1..Len(flat) :
             /\ \A c \in {1, 2, 3, 4, 6, 7, 8, 9, 10} :
                  file.lines[r + 1][c] = CellOf(flat[r], ColumnPaths[c])
             /\ file.lines[r + 1][1] = organizations[
                    CHOOSE i \in 1..N :
                      /\ r > Len(ServedInListOrder(SubSeq(remote.att, 1, i - 1)))
                      /\ r <= Len(ServedInListOrder(SubSeq(remote.att, 1, i)))
                  ].id

\* Two pages of the first organization and one page of the second are in
\* the file: rows 1 to 6 are the first organization's, page 1 before page
\* 2, and rows 7 to 9 the second's.
C20_Witness ==
  /\ pc = "Done"
  /\ N = 2
  /\ remote.att[1].requests = 2
  /\ remote.att[2].requests = 1
  /\ Len(file.lines) = 10
  /\ file.lines[2][1] = "1" /\ file.lines[2][2] = "E1"
  /\ file.lines[3][6] = "" /\ file.lines[4][6] = "Jane Doe"
  /\ file.lines[5][1] = "1" /\ file.lines[5][2] = "E2"
  /\ file.lines[8][1] = "2" /\ file.lines[8][2] = "E1"

\* The continuation parameter a loop sends after a page that carried
\* `token`: the token, or none when the token is absent or empty.
ParameterFor(token) == IF token \in {None, ""} THEN None ELSE token

\* In this step the remote served task i a page with has_more_items truthy
\* and the task went on: it sent one request more, for the same
\* organization, with the token of that page as continuation parameter.
TaskRequestsNextPage(i) ==
  /\ tasks'[i].st = "waiting"
  /\ tasks'[i].net.st = "sent"
  /\ remote'.att[i].requests = remote.att[i].requests + 1
  /\ tasks'[i].net.url =
       [tasks[i].net.url EXCEPT
          !.continuation = ParameterFor(remote'.att[i].cursor)]

\* The same for get_my_organizations.
ListerRequestsNextPage ==
  /\ pc' = "ListingOrganizations"
  /\ lister'.net.st = "sent"
  /\ remote'.list.requests = remote.list.requests + 1
  /\ lister'.net.url =
       [lister.net.url EXCEPT
          !.continuation = ParameterFor(remote'.list.cursor)]

\* C21: whenever a loop is served a page with has_more_items truthy, it
\* neither stops nor fails: in the same step it sends its next request,
\* whose continuation parameter is the token of that page, and no
\* continuation parameter at all when that page carried no token or an
\* empty one, which makes it the request of the first page again.
C21_NextRequestCarriesTheTokenOfThePage ==
  [][ /\ \A i \in 1..N :
           remote'.att[i].more > remote.att[i].more =>
             TaskRequestsNextPage(i)
      /\ remote'.list.more > remote.list.more => ListerRequestsNextPage
    ]_vars

\* C22: after every step, main has ended (returned or raised) exactly when
\* its session is closed, and the command has ended only with the session
\* closed; a closed session stays closed; and in a step that starts from a
\* closed session no request is sent, neither by get_my_organizations nor
\* by a task that was still pending when main ended.
C22_SessionClosedAtTheEndAndUnusedAfter ==
  [][ /\ (pc' \in {"Done", "Failed"}) <=> (session' = "closed")
      /\ cli'.exited => session' = "closed"
      /\ session = "closed" =>
           /\ session' = "closed"
           /\ remote'.list.requests = remote.list.requests
           /\ \A i \in 1..N :
                /\ remote'.att[i].requests = remote.att[i].requests
                /\ tasks'[i].net.st = "sent" => tasks'[i].net = tasks[i].net
      /\ (remote'.list.requests > remote.list.requests
             \/ SumRequests(remote'.att) > SumRequests(remote.att)) =>
           session' = "open"
    ]_vars

\* main has raised and closed the session; afterwards a pending task was
\* served a page with has_more_items truthy and ended without a further
\* request.
C22_Witness ==
  /\ pc = "Failed"
  /\ session = "closed"
  /\ \E i \in 1..N :
       /\ tasks[i].st = "failed"
       /\ remote.att[i].pages >= 1
       /\ remote.att[i].requests = remote.att[i].pages
       /\ remote.att[i].more = remote.att[i].pages

\* C23: once main holds a list of organizations in which some id is not
\* the text of an integer, main has raised: no task was created, no
\* attendee request was sent for any organization, also not for those
\* listed before the odd one, the file at the output path is as it was, and
\* the command ends with exit code 1.
C23_OddOrganizationIdFailsBeforeAnyFetch ==
  (\E k \in 1..Len(organizations) : PyInt(organizations[k].id) = ValueError)
    =>
    /\ pc = "Failed"
    /\ tasks = <<>>
    /\ remote.att = <<>>
    /\ results = <<>>
    /\ file \in {NoFile, StaleFile}
    /\ dirs = (IF file.exists THEN {output_file.dir} ELSE {})
    /\ cli.exited => (cli.code = 1 /\ ~cli.confirmed)

\* Two organizations were listed over two pages, the second with the id
\* "x"; the command has ended.
C23_Witness ==
  /\ cli.exited
  /\ Len(organizations) = 2
  /\ organizations[1].id = "1"
  /\ organizations[2].id = "x"
  /\ remote.list.requests = 2
  /\ tasks = <<>>

\* The items the loop took from the j-th answer.
LegacyItems(j) ==
  LET response == legacy.served[j]
  IN  IF "data" \in DOMAIN response
        THEN Get(response.data, LegacyKey(legacy.fn), <<>>)
        ELSE <<>>

\* The has_more_items of the j-th answer, None when the answer has none.
LegacyFlag(j) ==
  LET response == legacy.served[j]
  IN  IF "data" \in DOMAIN response /\ "pagination" \in DOMAIN response.data
        THEN Get(response.data.pagination, "has_more_items", None)
        ELSE None

\* The j-th answer carried a continuation token.
LegacyOffersToken(j) ==
  LET response == legacy.served[j]
  IN  /\ "data" \in DOMAIN response
      /\ "pagination" \in DOMAIN response.data
      /\ Truthy(Get(response.data.pagination, "continuation", None))

\* The j-th answer lets the iteration raise.
LegacyFailure(j) ==
  LET response == legacy.served[j]
  IN  \/ "raises" \in DOMAIN response
      \/ /\ "data" \in DOMAIN response
         /\ \/ legacy.fn = "get_attendees_by_org" /\ response.status >= 400
            \/ /\ legacy.fn = "get_my_organizations"
               /\ "organizations" \notin DOMAIN response.data
            \/ "pagination" \notin DOMAIN response.data
            \/ "has_more_items" \notin DOMAIN response.data.pagination

RECURSIVE LegacyItemsUpTo(_)
\* The items of the first n answers, one after the other.
LegacyItemsUpTo(n) ==
  IF n = 0 THEN <<>> ELSE LegacyItemsUpTo(n - 1) \o LegacyItems(n)

RECURSIVE Repeated(_, _)
\* n copies of items, one after the other.
Repeated(items, n) ==
  IF n = 0 THEN <<>> ELSE items \o Repeated(items, n - 1)

\* Every request of the loop so far had the url built before the loop,
\* which has no continuation parameter, whatever token an answer carried.
LegacyRequestsAreIdentical ==
  /\ Len(legacy.requested) = Len(legacy.served)
  /\ \A j \in 1..Len(legacy.requested) :
       /\ legacy.requested[j] = LegacyUrl(legacy.fn, legacy.organization_id)
       /\ legacy.requested[j].continuation = None

\* C24 as stated: every request of a loop of the legacy module has the
\* identical URL without continuation, the returned list is the items of
\* the first answer repeated once per request, and the loop has ended
\* exactly when the last answer carried has_more_items false.
C24_LegacyLoopRepeatsFirstPageUntilFalse ==
  legacy.st # "idle" =>
    /\ LegacyRequestsAreIdentical
    /\ legacy.st = "returned" =>
         legacy.list = Repeated(LegacyItems(1), Len(legacy.requested))
    /\ (legacy.st \in {"returned", "raised"})
         <=> /\ legacy.served # <<>>
             /\ LegacyFlag(Len(legacy.served)) = PyFalse

\* C24, amended: every request of a loop of the legacy module has the
\* identical URL without continuation, also after an answer that carried a
\* token.  The loop returns exactly when the last answer carried
\* has_more_items false, and then with the items of all answers one after
\* the other; it raises exactly when the last request or answer failed (no
\* response, for get_attendees_by_org a status of 400 or more, a body
\* without pagination, has_more_items or, for get_my_organizations,
\* organizations); otherwise it goes on.  When every answer equals the
\* first, the list is the first answer's items once per request and the
\* loop has returned after one request or not at all.
C24_LegacyLoopEndsOnFalseOrException ==
  legacy.st # "idle" =>
    LET n == Len(legacy.served)
    IN  /\ LegacyRequestsAreIdentical
        /\ \A j \in 1..(n - 1) :
             ~LegacyFailure(j) /\ Truthy(LegacyFlag(j))
        /\ legacy.st = "returned"
             <=> (n >= 1 /\ ~LegacyFailure(n) /\ LegacyFlag(n) = PyFalse)
        /\ legacy.st = "raised" <=> (n >= 1 /\ LegacyFailure(n))
        /\ legacy.st = "looping"
             <=> (n = 0 \/ (~LegacyFailure(n) /\ Truthy(LegacyFlag(n))))
        /\ legacy.st # "raised" => legacy.list = LegacyItemsUpTo(n)
        /\ (legacy.st # "raised"
              /\ \A j \in 1..n : legacy.served[j] = legacy.served[1])
             => /\ legacy.list = Repeated(LegacyItems(1), n)
                /\ legacy.st = "returned" => n = 1

\* A loop returned after three requests: the first answer carried a token
\* and two items, the second one item.
C24_Witness ==
  /\ legacy.st = "returned"
  /\ Len(legacy.requested) = 3
  /\ LegacyOffersToken(1)
  /\ Len(LegacyItems(1)) = 2
  /\ Len(LegacyItems(2)) = 1
  /\ legacy.list # Repeated(LegacyItems(1), 3)

====
